---- MODULE Spec2Model ----
(***************************************************************************)
(* simplyutil-server: a gin HTTP server that fans client requests out to   *)
(* third-party APIs (Nominatim geocoding, Foursquare places, Open-Meteo,   *)
(* exchangerate-api, REST Countries).                                      *)
(*                                                                         *)
(* One behaviour of Spec is one process serving one request: the router    *)
(* dispatches it to a handler, the handler runs its adapter (or, for the   *)
(* city bundle, three goroutines that report on unbuffered channels) and   *)
(* writes the response.  Strings that the code takes apart (the Foursquare *)
(* credential) are sequences of characters; error values are records      *)
(* holding the parts that fmt.Errorf puts together.                        *)
(***************************************************************************)
EXTENDS Integers, Sequences, FiniteSets, TLC

(* ------------------------------ bounds -------------------------------- *)

MaxKeyLen == 4
MaxResults == 2
MaxGroups == 2
MaxItems == 2
MaxHours == 2
MaxCountries == 3

(* ------------------------- program constants -------------------------- *)

StatusOK == 200
StatusBadRequest == 400
StatusInternalServerError == 500

(* --------------------------- value domains ---------------------------- *)

\* Characters of a credential string; "+" is the separator parseV2APIKey looks for.
KeyAlphabet == {"a", "b", "+"}

RECURSIVE SeqsUpTo(_, _)
SeqsUpTo(S, n) ==
    IF n = 0 THEN {<<>>}
    ELSE LET shorter == SeqsUpTo(S, n - 1)
         IN  shorter \cup {Append(s, x) : s \in shorter, x \in S}

Keys == SeqsUpTo(KeyAlphabet, MaxKeyLen)

\* Values of FOURSQUARE_API_KEY a process may be started with.
EnvKeys == {<<>>, <<"a">>, <<"a", "+", "b">>}

\* Path parameters: the router matches ":name" only against a non-empty segment.
PathCities == {"London"}
PathCountries == {"England"}
PathCurrencies == {"USD", "EUR"}
\* Query parameters: c.Query returns "" for an absent or empty parameter.
QueryCities == {"", "London"}
QueryCountries == {"", "England"}

UpstreamStatuses == {200, 404, 500}
ErrorBodies == {"upstream-body"}
\* The places Nominatim may name, as decoded NominatimResults.
Places == {[Lat |-> 1, Lon |-> 2], [Lat |-> 3, Lon |-> 4]}
CurrencyCodes == {"USD", "EUR"}

Adapters == {"landmarks", "weather", "rates", "cities"}
Tasks == {"landmarks", "weather", "rates"}

(* ------------------------------ errors -------------------------------- *)

\* An error value: wrap is the "geocoding failed: " prefix added by %w, text the
\* message, code and detail what the message formats in.  NilErr is Go's nil.
NilErr == [wrap |-> "", text |-> "", code |-> 0, detail |-> <<>>]
Errorf(text, code, detail) == [wrap |-> "", text |-> text, code |-> code, detail |-> detail]
WrapGeocoding(err) == [err EXCEPT !.wrap = "geocoding failed: "]
TransportErr == Errorf("transport error", 0, <<>>)
DecodeErr == Errorf("json decode error", 0, <<>>)

(* --------------------------- parseV2APIKey ---------------------------- *)

Min(S) == CHOOSE x \in S : \A y \in S : x <= y

\* parseV2APIKey splitting at the last '+' instead of the first.
parseV2APIKeySplitLast(apiKey) ==
    LET plus == {i \in 1..Len(apiKey) : apiKey[i] = "+"}
    IN  IF plus # {}
        THEN LET i == CHOOSE x \in plus : \A y \in plus : x >= y
             IN  <<SubSeq(apiKey, 1, i - 1), SubSeq(apiKey, i + 1, Len(apiKey))>>
        ELSE <<apiKey, apiKey>>

\* The first '+' splits the key; without one the key is returned twice.
parseV2APIKey(apiKey) ==
    LET plus == {i \in 1..Len(apiKey) : apiKey[i] = "+"}
    IN  IF plus # {}
        THEN LET i == Min(plus)
             IN  <<SubSeq(apiKey, 1, i - 1), SubSeq(apiKey, i + 1, Len(apiKey))>>
        ELSE <<apiKey, apiKey>>

(* ----------------------------- geocodeCity ---------------------------- *)

\* query := cityName, or "cityName, country" when country is given.
GeocodeQuery(cityName, country) ==
    IF country # "" THEN <<cityName, ", ", country>> ELSE <<cityName>>

\* What Nominatim may answer: the transport fails (the client's 10 s timeout
\* included), or a response with any status whose body decodes or not.
GeocodeResponses ==
    {[transport |-> FALSE, status |-> 0, decodes |-> FALSE, results |-> <<>>]}
    \cup {[transport |-> TRUE, status |-> s, decodes |-> FALSE, results |-> <<>>] :
            s \in UpstreamStatuses}
    \cup {[transport |-> TRUE, status |-> s, decodes |-> TRUE, results |-> r] :
            s \in UpstreamStatuses,
            r \in SeqsUpTo(Places, MaxResults)}

\* The status code is never read: only the transport and the decoded body decide.
geocodeCity(cityName, country, resp) ==
    IF ~resp.transport THEN [lat |-> 0, lon |-> 0, err |-> TransportErr]
    ELSE IF ~resp.decodes THEN [lat |-> 0, lon |-> 0, err |-> DecodeErr]
    ELSE IF Len(resp.results) = 0
         THEN [lat |-> 0, lon |-> 0,
               err |-> Errorf("location not found: ", 0, GeocodeQuery(cityName, country))]
    ELSE [lat |-> resp.results[1].Lat, lon |-> resp.results[1].Lon, err |-> NilErr]

(* ------------------- fetchLandmarksFromFoursquare --------------------- *)

\* An upstream answer to http.Get (no client timeout, so it may never come):
\* a transport error, a hang, a non-200 status with a raw body, or a 200 whose
\* body decodes into one of `values` or does not decode.
HttpResponses(values) ==
    {[kind |-> "transport"], [kind |-> "hang"]}
    \cup {[kind |-> "status", status |-> s, raw |-> b] :
            s \in UpstreamStatuses \ {200}, b \in ErrorBodies}
    \cup {[kind |-> "undecodable"]}
    \cup {[kind |-> "json", value |-> v] : v \in values}

\* One distinct number per (group, item, field), so that a swapped field or a
\* shifted index shows.
VenueField(g, i, k) == 100 * g + 10 * i + k
Venue(g, i) ==
    [Name |-> VenueField(g, i, 1), Rating |-> VenueField(g, i, 2),
     Location |-> [Lat |-> VenueField(g, i, 3), Lng |-> VenueField(g, i, 4),
                   Address |-> VenueField(g, i, 5)]]

\* FoursquareV2Response.Response.Groups, one group per entry of `counts`.
GroupsOf(counts) ==
    [g \in 1..Len(counts) |-> [Items |-> [i \in 1..counts[g] |-> [Venue |-> Venue(g, i)]]]]
FoursquareBodies == {GroupsOf(counts) : counts \in SeqsUpTo(0..MaxItems, MaxGroups)}

LandmarkOf(venue) ==
    [Name |-> venue.Name, Address |-> venue.Location.Address,
     Latitude |-> venue.Location.Lat, Longitude |-> venue.Location.Lng,
     Rating |-> venue.Rating]

\* Every item of every group, in upstream order.
RECURSIVE itemsOfGroups(_)
itemsOfGroups(groups) ==
    IF Len(groups) = 0 THEN <<>>
    ELSE groups[1].Items \o itemsOfGroups(Tail(groups))

\* convertVenues reading the items of all the groups.
convertVenuesAllGroups(groups) ==
    LET items == itemsOfGroups(groups)
    IN  [i \in 1..Len(items) |-> LandmarkOf(items[i].Venue)]

\* Only the first group is read; no group at all gives the empty slice.
convertVenues(groups) ==
    IF Len(groups) > 0
    THEN [i \in 1..Len(groups[1].Items) |-> LandmarkOf(groups[1].Items[i].Venue)]
    ELSE <<>>

\* The part of fetchLandmarksFromFoursquare after http.Get has answered.
landmarksFromResponse(resp) ==
    CASE resp.kind = "transport" -> [val |-> <<>>, err |-> TransportErr]
      [] resp.kind = "status" ->
            [val |-> <<>>, err |-> Errorf("foursquare API error: ", resp.status, <<resp.raw>>)]
      [] resp.kind = "undecodable" -> [val |-> <<>>, err |-> DecodeErr]
      [] resp.kind = "json" -> [val |-> convertVenues(resp.value), err |-> NilErr]

(* --------------------- fetchWeatherFromOpenMeteo ---------------------- *)

HourlyField(i, k) == 10 * i + k
\* OpenMeteoResponse.Hourly with the four arrays of the given lengths.
HourlyOf(nTime, nTemp, nWind, nHum) ==
    [Time |-> [i \in 1..nTime |-> HourlyField(i, 1)],
     Temperature |-> [i \in 1..nTemp |-> HourlyField(i, 2)],
     WindSpeed |-> [i \in 1..nWind |-> HourlyField(i, 3)],
     RelativeHumidity |-> [i \in 1..nHum |-> HourlyField(i, 4)]]
OpenMeteoBodies ==
    {HourlyOf(a, b, c, d) : a \in 0..MaxHours, b \in 0..MaxHours,
                            c \in 0..MaxHours, d \in 0..MaxHours}

WeatherZero == [Latitude |-> 0, Longitude |-> 0, Hourly |-> <<>>]

\* zipHourly stopping one entry early.
zipHourlyShifted(h) ==
    IF \E i \in 1..Len(h.Time) :
          i > Len(h.Temperature) \/ i > Len(h.WindSpeed) \/ i > Len(h.RelativeHumidity)
    THEN [panic |-> TRUE, hourly |-> <<>>]
    ELSE [panic |-> FALSE,
          hourly |-> [i \in 1..(Len(h.Time) - 1) |->
                        [Time |-> h.Time[i], Temperature |-> h.Temperature[i],
                         WindSpeed |-> h.WindSpeed[i],
                         RelativeHumidity |-> h.RelativeHumidity[i]]]]

\* The loop over Hourly.Time: it indexes the other three arrays with Time's
\* index and panics (index out of range) when one of them is shorter.
zipHourly(h) ==
    IF \E i \in 1..Len(h.Time) :
          i > Len(h.Temperature) \/ i > Len(h.WindSpeed) \/ i > Len(h.RelativeHumidity)
    THEN [panic |-> TRUE, hourly |-> <<>>]
    ELSE [panic |-> FALSE,
          hourly |-> [i \in 1..Len(h.Time) |->
                        [Time |-> h.Time[i], Temperature |-> h.Temperature[i],
                         WindSpeed |-> h.WindSpeed[i],
                         RelativeHumidity |-> h.RelativeHumidity[i]]]]

\* The part of fetchWeatherFromOpenMeteo after http.Get has answered.
weatherFromResponse(lat, lon, resp) ==
    CASE resp.kind = "transport" -> [panic |-> FALSE, val |-> WeatherZero, err |-> TransportErr]
      [] resp.kind = "status" ->
            [panic |-> FALSE, val |-> WeatherZero,
             err |-> Errorf("open-meteo API error: ", resp.status, <<resp.raw>>)]
      [] resp.kind = "undecodable" -> [panic |-> FALSE, val |-> WeatherZero, err |-> DecodeErr]
      [] resp.kind = "json" ->
            LET z == zipHourly(resp.value)
            IN  IF z.panic
                THEN [panic |-> TRUE, val |-> WeatherZero, err |-> NilErr]
                ELSE [panic |-> FALSE,
                      val |-> [Latitude |-> lat, Longitude |-> lon, Hourly |-> z.hourly],
                      err |-> NilErr]

(* --------------------- fetchRatesFromExchangeAPI ---------------------- *)

\* ExchangeRateResponse: conversion_rates is a set of <<code, rate>> pairs.
ExchangeRateBodies ==
    {[BaseCode |-> "USD", ConversionRates |-> {<<"USD", 1>>, <<"EUR", 2>>},
      TimeLastUpdateUnix |-> 1],
     [BaseCode |-> "EUR", ConversionRates |-> {}, TimeLastUpdateUnix |-> 0]}

RatesZero == [BaseCurrency |-> "", Rates |-> {}, Timestamp |-> [unix |-> 0]]

ratesFromResponse(resp) ==
    CASE resp.kind = "transport" -> [val |-> RatesZero, err |-> TransportErr]
      [] resp.kind = "status" ->
            [val |-> RatesZero,
             err |-> Errorf("exchange-rate API error: ", resp.status, <<resp.raw>>)]
      [] resp.kind = "undecodable" -> [val |-> RatesZero, err |-> DecodeErr]
      [] resp.kind = "json" ->
            [val |-> [BaseCurrency |-> resp.value.BaseCode,
                      Rates |-> resp.value.ConversionRates,
                      Timestamp |-> [unix |-> resp.value.TimeLastUpdateUnix]],
             err |-> NilErr]

(* -------------------- fetchCitiesFromRestCountries -------------------- *)

\* A RestCountry as decoded: Capital is a list, Currencies a map that is nil
\* (absent or null in the JSON) or holds the given codes ({} decodes to an
\* empty, non-nil map).
CountryKinds ==
    {[Capital |-> cap, Currencies |-> cur] :
        cap \in {<<>>, <<"K2", "K1">>},
        cur \in {[isNil |-> TRUE, codes |-> {}]}
                \cup {[isNil |-> FALSE, codes |-> cs] : cs \in {{}, CurrencyCodes}}}
\* The directory: country i has common name and cca3 i.
DirectoryOf(kinds) ==
    [i \in 1..Len(kinds) |->
        [Common |-> i, CCA3 |-> 100 + i, Capital |-> kinds[i].Capital,
         Currencies |-> kinds[i].Currencies]]
RestCountryBodies == {DirectoryOf(k) : k \in SeqsUpTo(CountryKinds, MaxCountries)}

\* Which key `for code := range country.Currencies { ...; break }` meets first
\* is up to the map's iteration order: pick[i] is that key for country i, and
\* the loop body never runs for an empty map, leaving "".
CurrencyPicks(countries) ==
    {pick \in [1..Len(countries) -> CurrencyCodes \cup {""}] :
        \A i \in 1..Len(countries) :
            IF countries[i].Currencies.codes = {}
            THEN pick[i] = ""
            ELSE pick[i] \in countries[i].Currencies.codes}

\* The `continue` condition of the loop.
skipCountry(country) ==
    Len(country.Capital) = 0 \/ country.Currencies.isNil

\* The loop with the City's ID taken from the country's position upstream.
RECURSIVE citiesLoopIndexId(_, _, _, _, _)
citiesLoopIndexId(countries, pick, i, id, cities) ==
    IF i > Len(countries) THEN cities
    ELSE IF skipCountry(countries[i])
         THEN citiesLoopIndexId(countries, pick, i + 1, id, cities)
         ELSE citiesLoopIndexId(countries, pick, i + 1, id + 1,
                                Append(cities,
                                       [ID |-> i, Name |-> countries[i].Capital[1],
                                        ThreeLetterCode |-> countries[i].CCA3,
                                        Currency |-> pick[i],
                                        Country |-> countries[i].Common]))

RECURSIVE citiesLoop(_, _, _, _, _)
citiesLoop(countries, pick, i, id, cities) ==
    IF i > Len(countries) THEN cities
    ELSE IF skipCountry(countries[i])
         THEN citiesLoop(countries, pick, i + 1, id, cities)
         ELSE citiesLoop(countries, pick, i + 1, id + 1,
                         Append(cities,
                                [ID |-> id, Name |-> countries[i].Capital[1],
                                 ThreeLetterCode |-> countries[i].CCA3,
                                 Currency |-> pick[i],
                                 Country |-> countries[i].Common]))

convertCountries(countries, pick) == citiesLoop(countries, pick, 1, 1, <<>>)

citiesFromResponse(resp, pick) ==
    CASE resp.kind = "transport" -> [val |-> <<>>, err |-> TransportErr]
      [] resp.kind = "status" ->
            [val |-> <<>>,
             err |-> Errorf("rest-countries API error: ", resp.status, <<resp.raw>>)]
      [] resp.kind = "undecodable" -> [val |-> <<>>, err |-> DecodeErr]
      [] resp.kind = "json" -> [val |-> convertCountries(resp.value, pick), err |-> NilErr]

(* ============================ the server ============================== *)

VARIABLES
    env,       \* FOURSQUARE_API_KEY of the process, a sequence of characters
    req,       \* the request being served: handler and parameters
    hpc,       \* where the handler is: [stage, task]
    pc,        \* per adapter: where its call is
    args,      \* per adapter: the arguments it was called with
    coords,    \* per adapter: what geocodeCity returned to it
    result,    \* per adapter: what it returned, [val, err]
    reqlog,    \* per adapter: the upstream requests it has issued, in order
    received,  \* per task: how many values the handler took from its channel
    got,       \* per task: the value the handler took (landmarksRes, ...)
    resp,      \* the responses written for the request, in order
    crashed,   \* the process died of a panic outside the handler's goroutine
    directory, \* the []RestCountry the cities adapter decoded (`countries`)
    call,      \* unit harness: the function applied and its argument
    ret        \* unit harness: what it returned

vars == <<env, req, hpc, pc, args, coords, result, reqlog, received, got, resp,
          crashed, directory, call, ret>>
unitVars == <<call, ret>>
serverVars == <<env, req, hpc, pc, args, coords, result, reqlog, received, got,
                resp, crashed, directory>>

NoReq == [handler |-> "", city |-> "", country |-> "", currency |-> ""]
NoArgs == [city |-> "", country |-> "", currency |-> ""]
At(stage) == [stage |-> stage, task |-> ""]

ZeroResult(a) ==
    CASE a = "weather" -> [val |-> WeatherZero, err |-> NilErr]
      [] a = "rates" -> [val |-> RatesZero, err |-> NilErr]
      [] OTHER -> [val |-> <<>>, err |-> NilErr]

ServerInit ==
    /\ env \in EnvKeys
    /\ req = NoReq
    /\ hpc = At("idle")
    /\ pc = [a \in Adapters |-> "idle"]
    /\ args = [a \in Adapters |-> NoArgs]
    /\ coords = [a \in Adapters |-> [lat |-> 0, lon |-> 0]]
    /\ result = [a \in Adapters |-> ZeroResult(a)]
    /\ reqlog = [a \in Adapters |-> <<>>]
    /\ received = [t \in Tasks |-> 0]
    /\ got = [t \in Tasks |-> ZeroResult(t)]
    /\ resp = <<>>
    /\ crashed = FALSE
    /\ directory = <<>>

NoCall == [fn |-> "", arg |-> <<>>, done |-> FALSE]

Init ==
    /\ ServerInit
    /\ call = NoCall
    /\ ret = <<>>

\* c.JSON(status, body)
JSON(status, body) == Append(resp, [status |-> status, body |-> body])

\* Nothing runs once the process has died.
Running == ~crashed

(* ----------------------------- adapters ------------------------------- *)

\* geocodeCity, up to client.Do: the one request to Nominatim.
GeocodeRequest(a) ==
    /\ Running
    /\ a \in {"landmarks", "weather"}
    /\ pc[a] = "called"
    /\ reqlog' = [reqlog EXCEPT ![a] =
                    Append(@, [to |-> "nominatim",
                               q |-> GeocodeQuery(args[a].city, args[a].country)])]
    /\ pc' = [pc EXCEPT ![a] = "geocoding"]
    /\ UNCHANGED <<env, directory, req, hpc, args, coords, result, received, got, resp, crashed>>
    /\ UNCHANGED unitVars

\* GeocodeReturn that calls geocodeCity a second time after a first failure.
GeocodeReturnRetryOnce(a) ==
    /\ Running
    /\ pc[a] = "geocoding"
    /\ \E r \in GeocodeResponses :
          LET g == geocodeCity(args[a].city, args[a].country, r)
          IN  IF g.err # NilErr
              THEN IF Len(reqlog[a]) < 2
                   THEN /\ pc' = [pc EXCEPT ![a] = "called"]
                        /\ UNCHANGED <<coords, result>>
                   ELSE /\ result' = [result EXCEPT ![a] =
                                        [val |-> ZeroResult(a).val,
                                         err |-> WrapGeocoding(g.err)]]
                        /\ pc' = [pc EXCEPT ![a] = "returned"]
                        /\ UNCHANGED coords
              ELSE /\ coords' = [coords EXCEPT ![a] = [lat |-> g.lat, lon |-> g.lon]]
                   /\ pc' = [pc EXCEPT ![a] = "geocoded"]
                   /\ UNCHANGED result
    /\ UNCHANGED <<env, directory, req, hpc, args, reqlog, received, got, resp, crashed>>
    /\ UNCHANGED unitVars

\* geocodeCity returns; the adapter returns "geocoding failed: ..." on an error.
GeocodeReturn(a) ==
    /\ Running
    /\ pc[a] = "geocoding"
    /\ \E r \in GeocodeResponses :
          LET g == geocodeCity(args[a].city, args[a].country, r)
          IN  IF g.err # NilErr
              THEN /\ result' = [result EXCEPT ![a] =
                                    [val |-> ZeroResult(a).val, err |-> WrapGeocoding(g.err)]]
                   /\ pc' = [pc EXCEPT ![a] = "returned"]
                   /\ UNCHANGED coords
              ELSE /\ coords' = [coords EXCEPT ![a] = [lat |-> g.lat, lon |-> g.lon]]
                   /\ pc' = [pc EXCEPT ![a] = "geocoded"]
                   /\ UNCHANGED result
    /\ UNCHANGED <<env, directory, req, hpc, args, reqlog, received, got, resp, crashed>>
    /\ UNCHANGED unitVars

\* LandmarksRequest without the test of the credential.
LandmarksRequestNoKeyCheck ==
    /\ Running
    /\ pc["landmarks"] = "geocoded"
    /\ reqlog' = [reqlog EXCEPT !["landmarks"] =
                    Append(@, [to |-> "foursquare",
                               ll |-> coords["landmarks"],
                               client_id |-> parseV2APIKey(env)[1],
                               client_secret |-> parseV2APIKey(env)[2],
                               section |-> "sights"])]
    /\ pc' = [pc EXCEPT !["landmarks"] = "fetching"]
    /\ UNCHANGED <<env, directory, req, hpc, args, coords, result, received, got, resp,
                   crashed>>
    /\ UNCHANGED unitVars

\* fetchLandmarksFromFoursquare between geocoding and http.Get: the credential
\* is read and split, and the explore request is issued.
LandmarksRequest ==
    /\ Running
    /\ pc["landmarks"] = "geocoded"
    /\ IF env = <<>>
       THEN /\ result' = [result EXCEPT !["landmarks"] =
                            [val |-> <<>>, err |-> Errorf("FOURSQUARE_API_KEY not set", 0, <<>>)]]
            /\ pc' = [pc EXCEPT !["landmarks"] = "returned"]
            /\ UNCHANGED reqlog
       ELSE /\ reqlog' = [reqlog EXCEPT !["landmarks"] =
                            Append(@, [to |-> "foursquare",
                                       ll |-> coords["landmarks"],
                                       client_id |-> parseV2APIKey(env)[1],
                                       client_secret |-> parseV2APIKey(env)[2],
                                       section |-> "sights"])]
            /\ pc' = [pc EXCEPT !["landmarks"] = "fetching"]
            /\ UNCHANGED result
    /\ UNCHANGED <<env, directory, req, hpc, args, coords, received, got, resp, crashed>>
    /\ UNCHANGED unitVars

\* An http.Get that never answers leaves the adapter in "hung" for good.
LandmarksReturn ==
    /\ Running
    /\ pc["landmarks"] = "fetching"
    /\ \E r \in HttpResponses(FoursquareBodies) :
          IF r.kind = "hang"
          THEN /\ pc' = [pc EXCEPT !["landmarks"] = "hung"]
               /\ UNCHANGED result
          ELSE /\ result' = [result EXCEPT !["landmarks"] = landmarksFromResponse(r)]
               /\ pc' = [pc EXCEPT !["landmarks"] = "returned"]
    /\ UNCHANGED <<env, directory, req, hpc, args, coords, reqlog, received, got, resp, crashed>>
    /\ UNCHANGED unitVars

WeatherRequest ==
    /\ Running
    /\ pc["weather"] = "geocoded"
    /\ reqlog' = [reqlog EXCEPT !["weather"] =
                    Append(@, [to |-> "open-meteo", ll |-> coords["weather"]])]
    /\ pc' = [pc EXCEPT !["weather"] = "fetching"]
    /\ UNCHANGED <<env, directory, req, hpc, args, coords, result, received, got, resp, crashed>>
    /\ UNCHANGED unitVars

\* A panic of the zip loop leaves the adapter in "panicked": it returns nothing.
WeatherReturn ==
    /\ Running
    /\ pc["weather"] = "fetching"
    /\ \E r \in HttpResponses(OpenMeteoBodies) :
          IF r.kind = "hang"
          THEN /\ pc' = [pc EXCEPT !["weather"] = "hung"]
               /\ UNCHANGED result
          ELSE LET w == weatherFromResponse(coords["weather"].lat, coords["weather"].lon, r)
               IN  IF w.panic
                   THEN /\ pc' = [pc EXCEPT !["weather"] = "panicked"]
                        /\ UNCHANGED result
                   ELSE /\ result' = [result EXCEPT !["weather"] =
                                        [val |-> w.val, err |-> w.err]]
                        /\ pc' = [pc EXCEPT !["weather"] = "returned"]
    /\ UNCHANGED <<env, directory, req, hpc, args, coords, reqlog, received, got, resp, crashed>>
    /\ UNCHANGED unitVars

RatesRequest ==
    /\ Running
    /\ pc["rates"] = "called"
    /\ reqlog' = [reqlog EXCEPT !["rates"] =
                    Append(@, [to |-> "exchangerate-api", base |-> args["rates"].currency])]
    /\ pc' = [pc EXCEPT !["rates"] = "fetching"]
    /\ UNCHANGED <<env, directory, req, hpc, args, coords, result, received, got, resp, crashed>>
    /\ UNCHANGED unitVars

RatesReturn ==
    /\ Running
    /\ pc["rates"] = "fetching"
    /\ \E r \in HttpResponses(ExchangeRateBodies) :
          IF r.kind = "hang"
          THEN /\ pc' = [pc EXCEPT !["rates"] = "hung"]
               /\ UNCHANGED result
          ELSE /\ result' = [result EXCEPT !["rates"] = ratesFromResponse(r)]
               /\ pc' = [pc EXCEPT !["rates"] = "returned"]
    /\ UNCHANGED <<env, directory, req, hpc, args, coords, reqlog, received, got, resp, crashed>>
    /\ UNCHANGED unitVars

CitiesRequest ==
    /\ Running
    /\ pc["cities"] = "called"
    /\ reqlog' = [reqlog EXCEPT !["cities"] = Append(@, [to |-> "restcountries"])]
    /\ pc' = [pc EXCEPT !["cities"] = "fetching"]
    /\ UNCHANGED <<env, directory, req, hpc, args, coords, result, received, got, resp, crashed>>
    /\ UNCHANGED unitVars

CitiesReturn ==
    /\ Running
    /\ pc["cities"] = "fetching"
    /\ \E r \in HttpResponses(RestCountryBodies) :
          IF r.kind = "hang"
          THEN /\ pc' = [pc EXCEPT !["cities"] = "hung"]
               /\ UNCHANGED <<result, directory>>
          ELSE /\ directory' = (IF r.kind = "json" THEN r.value ELSE <<>>)
               /\ \E pick \in (IF r.kind = "json" THEN CurrencyPicks(r.value) ELSE {<<>>}) :
                     result' = [result EXCEPT !["cities"] = citiesFromResponse(r, pick)]
               /\ pc' = [pc EXCEPT !["cities"] = "returned"]
    /\ UNCHANGED <<env, req, hpc, args, coords, reqlog, received, got, resp, crashed>>
    /\ UNCHANGED unitVars

(* ----------------------------- handlers ------------------------------- *)

\* The handler's own goroutine calls adapter a with the given arguments.
CallAdapter(a, handler, city, country, currency) ==
    /\ req' = [handler |-> handler, city |-> city, country |-> country,
               currency |-> currency]
    /\ args' = [args EXCEPT ![a] = [city |-> city, country |-> country,
                                    currency |-> currency]]
    /\ pc' = [pc EXCEPT ![a] = "called"]
    /\ hpc' = [stage |-> "call", task |-> a]
    /\ UNCHANGED resp

\* The handler answers at once, without calling anything.
Reject(handler, city, country, currency, status, body) ==
    /\ req' = [handler |-> handler, city |-> city, country |-> country,
               currency |-> currency]
    /\ resp' = JSON(status, body)
    /\ hpc' = At("done")
    /\ UNCHANGED <<args, pc>>

\* The adapter called by the handler's goroutine has returned to it.
Returned(a, handler) ==
    /\ Running
    /\ req.handler = handler
    /\ hpc = [stage |-> "call", task |-> a]
    /\ pc[a] = "returned"

\* Failure without the adapter's error text.
FailureGenericOnly(text, err) == [error |-> text]

Failure(text, err) == [error |-> text, message |-> err]

\* GET /api/v1/cities
GetCitiesCall ==
    /\ Running
    /\ hpc = At("idle")
    /\ CallAdapter("cities", "GetCities", "", "", "")
    /\ UNCHANGED <<env, directory, coords, result, reqlog, received, got, crashed>>
    /\ UNCHANGED unitVars

GetCitiesRespond ==
    /\ Returned("cities", "GetCities")
    /\ resp' = IF result["cities"].err # NilErr
               THEN JSON(StatusInternalServerError,
                         Failure("Failed to fetch cities", result["cities"].err))
               ELSE JSON(StatusOK, [cities |-> result["cities"].val,
                                    count |-> Len(result["cities"].val)])
    /\ hpc' = At("done")
    /\ UNCHANGED <<env, directory, req, pc, args, coords, result, reqlog, received, got, crashed>>
    /\ UNCHANGED unitVars

\* GetLandmarksCall without the check of the city parameter.
GetLandmarksCallUnchecked ==
    /\ Running
    /\ hpc = At("idle")
    /\ \E cityName \in QueryCities, country \in QueryCountries :
          CallAdapter("landmarks", "GetLandmarks", cityName, country, "")
    /\ UNCHANGED <<env, directory, coords, result, reqlog, received, got, crashed>>
    /\ UNCHANGED unitVars

\* GET /api/v1/landmarks?city=&country=
GetLandmarksCall ==
    /\ Running
    /\ hpc = At("idle")
    /\ \E cityName \in QueryCities, country \in QueryCountries :
          IF cityName = ""
          THEN Reject("GetLandmarks", cityName, country, "", StatusBadRequest,
                      [error |-> "city parameter is required"])
          ELSE CallAdapter("landmarks", "GetLandmarks", cityName, country, "")
    /\ UNCHANGED <<env, directory, coords, result, reqlog, received, got, crashed>>
    /\ UNCHANGED unitVars

GetLandmarksRespond ==
    /\ Returned("landmarks", "GetLandmarks")
    /\ resp' = IF result["landmarks"].err # NilErr
               THEN JSON(StatusInternalServerError,
                         Failure("Failed to fetch landmarks", result["landmarks"].err))
               ELSE JSON(StatusOK, [landmarks |-> result["landmarks"].val,
                                    count |-> Len(result["landmarks"].val)])
    /\ hpc' = At("done")
    /\ UNCHANGED <<env, directory, req, pc, args, coords, result, reqlog, received, got, crashed>>
    /\ UNCHANGED unitVars

\* GET /api/v1/weather?city=
GetWeatherCall ==
    /\ Running
    /\ hpc = At("idle")
    /\ \E cityName \in QueryCities :
          IF cityName = ""
          THEN Reject("GetWeather", cityName, "", "", StatusBadRequest,
                      [error |-> "city parameter is required"])
          ELSE CallAdapter("weather", "GetWeather", cityName, "", "")
    /\ UNCHANGED <<env, directory, coords, result, reqlog, received, got, crashed>>
    /\ UNCHANGED unitVars

GetWeatherRespond ==
    /\ Returned("weather", "GetWeather")
    /\ resp' = IF result["weather"].err # NilErr
               THEN JSON(StatusInternalServerError,
                         Failure("Failed to fetch weather", result["weather"].err))
               ELSE JSON(StatusOK, [weather |-> result["weather"].val])
    /\ hpc' = At("done")
    /\ UNCHANGED <<env, directory, req, pc, args, coords, result, reqlog, received, got, crashed>>
    /\ UNCHANGED unitVars

\* GET /api/v1/rates/:currency
GetRatesCall ==
    /\ Running
    /\ hpc = At("idle")
    /\ \E currency \in PathCurrencies :
          IF currency = ""
          THEN Reject("GetRates", "", "", currency, StatusBadRequest,
                      [error |-> "currency parameter is required"])
          ELSE CallAdapter("rates", "GetRates", "", "", currency)
    /\ UNCHANGED <<env, directory, coords, result, reqlog, received, got, crashed>>
    /\ UNCHANGED unitVars

GetRatesRespond ==
    /\ Returned("rates", "GetRates")
    /\ resp' = IF result["rates"].err # NilErr
               THEN JSON(StatusInternalServerError,
                         Failure("Failed to fetch rates", result["rates"].err))
               ELSE JSON(StatusOK, result["rates"].val)
    /\ hpc' = At("done")
    /\ UNCHANGED <<env, directory, req, pc, args, coords, result, reqlog, received, got, crashed>>
    /\ UNCHANGED unitVars

\* gin.Default() installs Recovery: a panic on the handler's own goroutine is
\* caught and answered with a bare 500.
Recovery ==
    /\ Running
    /\ hpc.stage = "call"
    /\ pc[hpc.task] = "panicked"
    /\ resp' = JSON(StatusInternalServerError, [recovered |-> TRUE])
    /\ hpc' = At("done")
    /\ UNCHANGED <<env, directory, req, pc, args, coords, result, reqlog, received, got, crashed>>
    /\ UNCHANGED unitVars

(* --------------------------- GetCityData ------------------------------ *)

\* The order of the three go statements and of the three receives.
TaskOrder == <<"landmarks", "weather", "rates">>
IndexOf(t) == CHOOSE i \in 1..Len(TaskOrder) : TaskOrder[i] = t
\* Following that leaves the receives as soon as a task has reported an error.
FollowingShortCircuit(stage, t, after) ==
    IF stage = "recv" /\ result[t].err # NilErr THEN after
    ELSE IF IndexOf(t) < Len(TaskOrder)
         THEN [stage |-> stage, task |-> TaskOrder[IndexOf(t) + 1]]
         ELSE after

\* Following that receives from the first channel again.
FollowingSameChannel(stage, t, after) ==
    IF stage = "recv" THEN [stage |-> "recv", task |-> TaskOrder[1]]
    ELSE IF IndexOf(t) < Len(TaskOrder)
         THEN [stage |-> stage, task |-> TaskOrder[IndexOf(t) + 1]]
         ELSE after

\* After the statement for task t of a stage: the same stage for the next
\* task, or `after` when t was the last.
Following(stage, t, after) ==
    IF IndexOf(t) < Len(TaskOrder)
    THEN [stage |-> stage, task |-> TaskOrder[IndexOf(t) + 1]]
    ELSE after

\* GET /api/v1/cities/:name/:country: the parameters are read and the three
\* unbuffered channels made.
GetCityDataEnter ==
    /\ Running
    /\ hpc = At("idle")
    /\ \E cityName \in PathCities, country \in PathCountries :
          req' = [handler |-> "GetCityData", city |-> cityName, country |-> country,
                  currency |-> ""]
    /\ hpc' = [stage |-> "go", task |-> TaskOrder[1]]
    /\ UNCHANGED <<env, directory, pc, args, coords, result, reqlog, received, got, resp, crashed>>
    /\ UNCHANGED unitVars

\* What each goroutine passes to its fetch.
TaskArgs(t) ==
    CASE t = "landmarks" -> [city |-> req.city, country |-> req.country, currency |-> ""]
      [] t = "weather" -> [city |-> req.city, country |-> "", currency |-> ""]
      [] t = "rates" -> [city |-> "", country |-> "", currency |-> "USD"]

\* go func() { ... }(): the goroutine of task t starts with its fetch call.
Go(t) ==
    /\ Running
    /\ hpc = [stage |-> "go", task |-> t]
    /\ args' = [args EXCEPT ![t] = TaskArgs(t)]
    /\ pc' = [pc EXCEPT ![t] = "called"]
    /\ hpc' = Following("go", t, [stage |-> "recv", task |-> TaskOrder[1]])
    /\ UNCHANGED <<env, directory, req, coords, result, reqlog, received, got, resp, crashed>>
    /\ UNCHANGED unitVars

\* The handler may take from channel t: it stands at that receive and the
\* goroutine, its fetch returned, stands at the send.
CanReceive(t) ==
    /\ hpc = [stage |-> "recv", task |-> t]
    /\ pc[t] = "returned"

\* xCh <- xResult{...} meets xRes := <-xCh: the channel is unbuffered, so the
\* send and the receive are one step, after which the goroutine ends.
Receive(t) ==
    /\ Running
    /\ CanReceive(t)
    /\ got' = [got EXCEPT ![t] = result[t]]
    /\ received' = [received EXCEPT ![t] = @ + 1]
    /\ pc' = [pc EXCEPT ![t] = "exited"]
    /\ hpc' = Following("recv", t, At("build"))
    /\ UNCHANGED <<env, directory, req, args, coords, result, reqlog, resp, crashed>>
    /\ UNCHANGED unitVars

\* Field that always writes the payload key.
FieldAlwaysPayload(field, errorField, res) == field :> res.val

\* response[field] = value, or response[field_error] = err.Error()
Field(field, errorField, res) ==
    IF res.err = NilErr THEN field :> res.val ELSE errorField :> res.err

\* A status that reports a failed adapter.
BundleStatusByErrors ==
    IF \E t \in Tasks : got[t].err # NilErr THEN StatusInternalServerError ELSE StatusOK

BundleStatus == StatusOK

\* Build that does not wait for the receives to finish: a reply on a timeout.
BuildOnTimeout ==
    /\ Running
    /\ hpc.stage \in {"recv", "build"}
    /\ resp' = JSON(BundleStatus,
                    ("city" :> req.city) @@ ("country" :> req.country)
                    @@ Field("landmarks", "landmarks_error", got["landmarks"])
                    @@ Field("weather", "weather_error", got["weather"])
                    @@ Field("rates", "rates_error", got["rates"]))
    /\ hpc' = At("done")
    /\ UNCHANGED <<env, directory, req, pc, args, coords, result, reqlog, received, got, crashed>>
    /\ UNCHANGED unitVars

\* The response is built from the three collected results and written.
Build ==
    /\ Running
    /\ hpc = At("build")
    /\ resp' = JSON(BundleStatus,
                    ("city" :> req.city) @@ ("country" :> req.country)
                    @@ Field("landmarks", "landmarks_error", got["landmarks"])
                    @@ Field("weather", "weather_error", got["weather"])
                    @@ Field("rates", "rates_error", got["rates"]))
    /\ hpc' = At("done")
    /\ UNCHANGED <<env, directory, req, pc, args, coords, result, reqlog, received, got, crashed>>
    /\ UNCHANGED unitVars

\* A panic in a goroutine started by `go` has no recover above it: the
\* runtime ends the process, whatever the other goroutines were doing.
GoroutinePanic(t) ==
    /\ Running
    /\ req.handler = "GetCityData"
    /\ pc[t] = "panicked"
    /\ crashed' = TRUE
    /\ UNCHANGED <<env, directory, req, hpc, pc, args, coords, result, reqlog, received, got, resp>>
    /\ UNCHANGED unitVars

(* --------------------------- specification ---------------------------- *)

\* The steps of the goroutine that runs adapter a.
AdapterRun(a) ==
    \/ GeocodeRequest(a)
    \/ GeocodeReturn(a)
    \/ a = "landmarks" /\ LandmarksRequest
    \/ a = "landmarks" /\ LandmarksReturn
    \/ a = "weather" /\ WeatherRequest
    \/ a = "weather" /\ WeatherReturn
    \/ a = "rates" /\ RatesRequest
    \/ a = "rates" /\ RatesReturn
    \/ a = "cities" /\ CitiesRequest
    \/ a = "cities" /\ CitiesReturn
    \/ a \in Tasks /\ GoroutinePanic(a)

\* The steps of the goroutine gin runs the handler on.
HandlerStep ==
    \/ GetCitiesCall
    \/ GetCitiesRespond
    \/ GetLandmarksCall
    \/ GetLandmarksRespond
    \/ GetWeatherCall
    \/ GetWeatherRespond
    \/ GetRatesCall
    \/ GetRatesRespond
    \/ Recovery
    \/ GetCityDataEnter
    \/ \E t \in Tasks : Go(t)
    \/ \E t \in Tasks : Receive(t)
    \/ Build

Next == (\E a \in Adapters : AdapterRun(a)) \/ HandlerStep

Spec == Init /\ [][Next]_vars

\* The Go scheduler runs every goroutine that can take a step.  An upstream
\* that never answers is the "hang" outcome of a Return step, so fairness of
\* the steps does not make upstreams answer.
FairSpec ==
    /\ Spec
    /\ WF_vars(HandlerStep)
    /\ \A a \in Adapters : WF_vars(AdapterRun(a))

(* ---------------------------- unit harness ---------------------------- *)

\* The pure conversions, each applied once to an input drawn from its domain.
UnitInit ==
    /\ ServerInit
    /\ ret = <<>>
    /\ call \in {[fn |-> "parseV2APIKey", arg |-> k, done |-> FALSE] : k \in Keys}
           \cup {[fn |-> "convertCountries", arg |-> c, done |-> FALSE] :
                    c \in RestCountryBodies}
           \cup {[fn |-> "weatherFromResponse", arg |-> h, done |-> FALSE] :
                    h \in OpenMeteoBodies}
           \cup {[fn |-> "geocodeCity",
                  arg |-> [cityName |-> "London", country |-> c, resp |-> r],
                  done |-> FALSE] : c \in QueryCountries, r \in GeocodeResponses}
           \cup {[fn |-> "landmarksFromResponse", arg |-> r, done |-> FALSE] :
                    r \in HttpResponses(FoursquareBodies) \ {[kind |-> "hang"]}}

ApplyParseV2APIKey ==
    /\ call.fn = "parseV2APIKey" /\ ~call.done
    /\ ret' = parseV2APIKey(call.arg)
    /\ call' = [call EXCEPT !.done = TRUE]
    /\ UNCHANGED serverVars

ApplyConvertCountries ==
    /\ call.fn = "convertCountries" /\ ~call.done
    /\ \E pick \in CurrencyPicks(call.arg) : ret' = convertCountries(call.arg, pick)
    /\ call' = [call EXCEPT !.done = TRUE]
    /\ UNCHANGED serverVars

\* The forecast body arrives for coordinates (1, 2).
ApplyWeatherFromResponse ==
    /\ call.fn = "weatherFromResponse" /\ ~call.done
    /\ ret' = weatherFromResponse(1, 2, [kind |-> "json", value |-> call.arg])
    /\ call' = [call EXCEPT !.done = TRUE]
    /\ UNCHANGED serverVars

ApplyGeocodeCity ==
    /\ call.fn = "geocodeCity" /\ ~call.done
    /\ ret' = geocodeCity(call.arg.cityName, call.arg.country, call.arg.resp)
    /\ call' = [call EXCEPT !.done = TRUE]
    /\ UNCHANGED serverVars

\* The explore request has been answered (geocoding and the credential passed).
ApplyLandmarksFromResponse ==
    /\ call.fn = "landmarksFromResponse" /\ ~call.done
    /\ ret' = landmarksFromResponse(call.arg)
    /\ call' = [call EXCEPT !.done = TRUE]
    /\ UNCHANGED serverVars

UnitNext ==
    \/ ApplyParseV2APIKey
    \/ ApplyConvertCountries
    \/ ApplyWeatherFromResponse
    \/ ApplyGeocodeCity
    \/ ApplyLandmarksFromResponse

UnitSpec == UnitInit /\ [][UnitNext]_vars

(* ============================== claims ================================ *)

IsBundle == req.handler = "GetCityData"
SingleHandlers == {"GetCities", "GetLandmarks", "GetWeather", "GetRates"}
AdapterOf(handler) ==
    CASE handler = "GetCities" -> "cities"
      [] handler = "GetLandmarks" -> "landmarks"
      [] handler = "GetWeather" -> "weather"
      [] handler = "GetRates" -> "rates"
GenericText(handler) ==
    CASE handler = "GetCities" -> "Failed to fetch cities"
      [] handler = "GetLandmarks" -> "Failed to fetch landmarks"
      [] handler = "GetWeather" -> "Failed to fetch weather"
      [] handler = "GetRates" -> "Failed to fetch rates"
ErrorKey(t) ==
    CASE t = "landmarks" -> "landmarks_error"
      [] t = "weather" -> "weather_error"
      [] t = "rates" -> "rates_error"
Failed(t) == result[t].err # NilErr

\* C1: a city-bundle request is answered at most once, every answer it gets
\* has status 200 whichever of the three collected outcomes are errors, and a
\* handler that has finished has answered exactly once.
C1_BundleAlways200 ==
    IsBundle =>
        /\ Len(resp) <= 1
        /\ \A i \in 1..Len(resp) : resp[i].status = 200
        /\ (hpc = At("done")) = (Len(resp) = 1)
        /\ (\A t \in Tasks : received[t] = 1) => hpc.stage \in {"build", "done"}

\* All three adapters failed and the bundle was still answered with 200.
C1_Witness ==
    /\ IsBundle
    /\ \A t \in Tasks : pc[t] = "exited" /\ Failed(t)
    /\ Len(resp) = 1
    /\ resp[1].status = 200

\* C2: in a city-bundle response each of landmarks, weather and rates appears
\* under exactly one of its two keys: the payload key with the adapter's value
\* iff the adapter returned no error, the _error key with the adapter's error
\* otherwise, each field decided on its own adapter alone.
C2_FieldOrError ==
    (IsBundle /\ resp # <<>>) =>
        LET body == resp[1].body
        IN  /\ DOMAIN body = {"city", "country"}
                             \cup {t : t \in {u \in Tasks : ~Failed(u)}}
                             \cup {ErrorKey(t) : t \in {u \in Tasks : Failed(u)}}
            /\ \A t \in Tasks :
                  IF Failed(t)
                  THEN body[ErrorKey(t)] = result[t].err
                  ELSE body[t] = result[t].val

\* Rates failed with an upstream 500 while landmarks and weather succeeded.
C2_Witness ==
    /\ IsBundle
    /\ resp # <<>>
    /\ result["rates"].err.code = 500
    /\ ~Failed("landmarks") /\ ~Failed("weather")
    /\ DOMAIN resp[1].body = {"city", "country", "landmarks", "weather", "rates_error"}
    /\ Len(resp[1].body["landmarks"]) > 0
    /\ Len(resp[1].body["weather"].Hourly) > 0

\* C3: GetLandmarks and GetWeather answer a request whose city parameter is
\* empty with 400 {"error": "city parameter is required"}, with or without a
\* country, and no adapter is called and no upstream request issued.
C3_MissingCity ==
    (req.handler \in {"GetLandmarks", "GetWeather"} /\ req.city = "") =>
        /\ resp = <<[status |-> 400, body |-> [error |-> "city parameter is required"]]>>
        /\ \A a \in Adapters : pc[a] = "idle" /\ reqlog[a] = <<>>

\* GetLandmarks was asked with a country but no city, and has answered.
C3_Witness ==
    /\ req.handler = "GetLandmarks"
    /\ req.city = ""
    /\ req.country = "England"
    /\ Len(resp) = 1

\* C4: a single-resource handler answers at most once; when its adapter
\* returned an error, of whatever kind, the answer is 500 with the handler's
\* generic text under "error" and the adapter's error under "message"; a 400
\* is only ever the answer to a missing parameter, before any adapter call;
\* a 200 only ever follows an adapter that returned no error.
C4_SingleHandlerStatus ==
    (req.handler \in SingleHandlers) =>
        LET a == AdapterOf(req.handler)
        IN  /\ Len(resp) <= 1
            /\ (hpc = At("done")) = (Len(resp) = 1)
            /\ (hpc = At("done") /\ pc[a] = "returned" /\ Failed(a)) =>
                  resp[1] = [status |-> 500,
                             body |-> [error |-> GenericText(req.handler),
                                       message |-> result[a].err]]
            /\ (resp # <<>> /\ resp[1].status = 400) =>
                  /\ pc[a] = "idle"
                  /\ IF req.handler = "GetRates" THEN req.currency = "" ELSE req.city = ""
            /\ (resp # <<>> /\ resp[1].status = 200) => (pc[a] = "returned" /\ ~Failed(a))
            /\ (resp # <<>>) => resp[1].status \in {200, 400, 500}

\* GetWeather answered 500 for a geocoding failure.
C4_Witness ==
    /\ req.handler = "GetWeather"
    /\ result["weather"].err.wrap = "geocoding failed: "
    /\ Len(resp) = 1
    /\ resp[1].status = 500
    /\ resp[1].body.message = result["weather"].err

HasPlus(key) == \E i \in 1..Len(key) : key[i] = "+"

\* C5: parseV2APIKey splits at the first '+' only: for a key with a '+' the
\* id holds no '+' and id, "+", secret put together give the key back; for a
\* key without one, the empty key included, both parts are the key.
C5_ParseV2APIKey ==
    (call.fn = "parseV2APIKey" /\ call.done) =>
        LET key == call.arg
            id == ret[1]
            secret == ret[2]
        IN  IF HasPlus(key)
            THEN ~HasPlus(id) /\ id \o <<"+">> \o secret = key
            ELSE id = key /\ secret = key

\* "a+b+" was split into "a" and "b+".
C5_Witness ==
    /\ call.fn = "parseV2APIKey"
    /\ call.done
    /\ call.arg = <<"a", "+", "b", "+">>
    /\ ret = << <<"a">>, <<"b", "+">> >>

\* C6: no City is emitted for a country whose capital list is empty or whose
\* currency set has no entries, be it absent or present but empty; so every
\* emitted City has a non-empty name and a non-empty currency, which is one
\* of the codes its country declares.
C6_CitiesFiltered ==
    (call.fn = "convertCountries" /\ call.done) =>
        \A k \in 1..Len(ret) :
            \E i \in 1..Len(call.arg) :
                /\ call.arg[i].Common = ret[k].Country
                /\ Len(call.arg[i].Capital) > 0
                /\ call.arg[i].Currencies.codes # {}
                /\ ret[k].Name # ""
                /\ ret[k].Currency # ""
                /\ ret[k].Currency \in call.arg[i].Currencies.codes

\* C7: four hourly arrays of one length N give exactly N HourlyForecast
\* entries and no error, entry i holding element i of each array.
C7_WeatherZip ==
    (/\ call.fn = "weatherFromResponse" /\ call.done
     /\ Len(call.arg.Temperature) = Len(call.arg.Time)
     /\ Len(call.arg.WindSpeed) = Len(call.arg.Time)
     /\ Len(call.arg.RelativeHumidity) = Len(call.arg.Time)) =>
        /\ ~ret.panic
        /\ ret.err = NilErr
        /\ Len(ret.val.Hourly) = Len(call.arg.Time)
        /\ \A i \in 1..Len(call.arg.Time) :
              ret.val.Hourly[i] = [Time |-> call.arg.Time[i],
                                   Temperature |-> call.arg.Temperature[i],
                                   WindSpeed |-> call.arg.WindSpeed[i],
                                   RelativeHumidity |-> call.arg.RelativeHumidity[i]]

\* Four arrays of length two were zipped into two entries.
C7_Witness ==
    /\ call.fn = "weatherFromResponse"
    /\ call.done
    /\ call.arg = HourlyOf(2, 2, 2, 2)
    /\ Len(ret.val.Hourly) = 2

FetchReturned(t) == pc[t] \in {"returned", "exited"}

\* C8: while any of the three fetches of a city-bundle request has not
\* returned, one that never will included, no response has been written,
\* whatever the other two have done.
C8_NoReplyWhileFetchPending ==
    (IsBundle /\ \E t \in Tasks : ~FetchReturned(t)) =>
        /\ resp = <<>>
        /\ hpc # At("done")

\* The rates fetch hangs for good, the other two outcomes are collected, and
\* the handler stands at the rates receive with nothing written.
C8_Witness ==
    /\ IsBundle
    /\ pc["rates"] = "hung"
    /\ pc["landmarks"] = "exited"
    /\ pc["weather"] = "exited"
    /\ hpc = [stage |-> "recv", task |-> "rates"]
    /\ resp = <<>>

BundleFinished ==
    /\ Len(resp) = 1
    /\ hpc = At("done")
    /\ \A t \in Tasks : pc[t] = "exited"

\* C9: the handler takes the three outcomes in the order landmarks, weather,
\* rates; and whatever the order in which the three fetches return, if each
\* of them eventually returns then the handler eventually writes the response
\* and every one of the three goroutines has ended, none left at its send.
C9_NoDeadlock ==
    /\ [](IsBundle => /\ received["weather"] <= received["landmarks"]
                      /\ received["rates"] <= received["weather"])
    /\ ((<>(IsBundle /\ FetchReturned("landmarks")))
        /\ (<>(IsBundle /\ FetchReturned("weather")))
        /\ (<>(IsBundle /\ FetchReturned("rates"))))
          => <>BundleFinished

\* Rates and weather have returned and wait at their sends while the handler
\* still waits for landmarks, the first channel it reads.
C9_Witness ==
    /\ IsBundle
    /\ pc["rates"] = "returned"
    /\ pc["weather"] = "returned"
    /\ pc["landmarks"] = "fetching"
    /\ hpc = [stage |-> "recv", task |-> "landmarks"]

\* C10: a city-bundle response is written only after each task has handed
\* over its outcome exactly once on its own channel: no channel is ever read
\* twice, and once a response exists all three outcomes, errors included,
\* have been collected as the adapters returned them.
C10_CollectAllBeforeReply ==
    IsBundle =>
        /\ \A t \in Tasks : received[t] <= 1
        /\ \A t \in Tasks : (received[t] = 1) = (pc[t] = "exited")
        /\ (resp # <<>> \/ hpc.stage \in {"build", "done"}) =>
              \A t \in Tasks : received[t] = 1 /\ got[t] = result[t]

\* Landmarks, collected first, had failed; the response was still written
\* only with weather and rates collected too, both of them successes.
C10_Witness ==
    /\ IsBundle
    /\ resp # <<>>
    /\ Failed("landmarks")
    /\ ~Failed("weather") /\ ~Failed("rates")
    /\ \A t \in Tasks : received[t] = 1

\* A fetch that was called and has neither returned nor been left waiting on
\* an upstream that never answers.
InFlight(t) == pc[t] \in {"called", "geocoding", "geocoded", "fetching"}

\* C11: once the handler of a city-bundle request is past its go statements
\* all three fetches have been called, landmarks with (cityName, country),
\* weather with (cityName), rates with "USD"; each issues its requests once;
\* and no fetch is ever cut off by what happened to another task.
C11_AllTasksRunToTheirEnd ==
    IsBundle =>
        /\ (hpc.stage \in {"recv", "build", "done"}) =>
              /\ \A t \in Tasks : pc[t] # "idle"
              /\ args["landmarks"] = [city |-> req.city, country |-> req.country,
                                      currency |-> ""]
              /\ args["weather"] = [city |-> req.city, country |-> "", currency |-> ""]
              /\ args["rates"] = [city |-> "", country |-> "", currency |-> "USD"]
        /\ \A t \in Tasks :
              \A i, j \in 1..Len(reqlog[t]) : reqlog[t][i].to = reqlog[t][j].to => i = j
        /\ \A t \in Tasks : ~(crashed /\ InFlight(t))

\* C12: unequal hourly arrays never make the weather fetch panic: it returns
\* to its caller (a shorter sequence, or an error), and a city-bundle request
\* is never ended by the process dying.
C12_MismatchIsAnOutcome ==
    /\ pc["weather"] # "panicked"
    /\ ~crashed

\* C13: geocodeCity returns an error and no coordinates when the transport
\* fails, when Nominatim answers with a non-success status whatever the body,
\* and when there are no matches ("location not found"); it returns the
\* first result's coordinates only for a success status with a match.
C13_GeocodeErrors ==
    (call.fn = "geocodeCity" /\ call.done) =>
        LET r == call.arg.resp
            success == r.transport /\ r.status = 200
        IN  /\ (~success) => (ret.err # NilErr /\ ret.lat = 0 /\ ret.lon = 0)
            /\ (success /\ r.decodes /\ Len(r.results) = 0) =>
                  (ret.err.text = "location not found: " /\ ret.lat = 0 /\ ret.lon = 0)
            /\ (ret.err = NilErr) =>
                  /\ success /\ r.decodes /\ Len(r.results) >= 1
                  /\ ret.lat = r.results[1].Lat /\ ret.lon = r.results[1].Lon

GeocodingAdapters == {"landmarks", "weather"}
MainUpstream(a) == IF a = "landmarks" THEN "foursquare" ELSE "open-meteo"
NoCoords == [lat |-> 0, lon |-> 0]

\* C14: one call of the landmark or weather adapter issues at most one
\* geocoding request and at most one main request, the geocoding one first;
\* when geocoding fails the adapter returns "geocoding failed: ..." and the
\* main request is never issued.
C14_NoRetries ==
    \A a \in GeocodingAdapters :
        LET log == reqlog[a]
        IN  /\ Len(log) <= 2
            /\ (Len(log) >= 1) => log[1].to = "nominatim"
            /\ (Len(log) = 2) =>
                  /\ log[2].to = MainUpstream(a)
                  /\ coords[a] # NoCoords
                  /\ log[2].ll = coords[a]
            /\ (pc[a] \in {"returned", "exited"} /\ coords[a] = NoCoords) =>
                  /\ result[a].err.wrap = "geocoding failed: "
                  /\ Len(log) = 1
            /\ (result[a].err.wrap = "geocoding failed: ") =>
                  (coords[a] = NoCoords /\ Len(log) = 1)

\* The weather adapter returned a geocoding failure after its one request.
C14_Witness ==
    /\ pc["weather"] = "returned"
    /\ result["weather"].err.wrap = "geocoding failed: "
    /\ result["weather"].err.text = "location not found: "
    /\ Len(reqlog["weather"]) = 1
    /\ reqlog["weather"][1].to = "nominatim"

\* The countries of the decoded directory that the loop does not skip.
Survives(country) == Len(country.Capital) > 0 /\ ~country.Currencies.isNil
Survivors == SelectSeq(directory, Survives)

\* C15: the cities adapter emits each surviving country exactly once, in
\* upstream order, the i-th City having id i (ids 1..n without gaps or
\* repeats, wherever the filtered countries lie), and the count GetCities
\* returns is n.
C15_SequentialIds ==
    /\ (result["cities"].err = NilErr) =>
          LET cities == result["cities"].val
          IN  /\ Len(cities) = Len(Survivors)
              /\ \A k \in 1..Len(cities) :
                    /\ cities[k].ID = k
                    /\ cities[k].Country = Survivors[k].Common
                    /\ cities[k].ThreeLetterCode = Survivors[k].CCA3
                    /\ cities[k].Name = Survivors[k].Capital[1]
    /\ (req.handler = "GetCities" /\ hpc.stage = "done"
        /\ resp[Len(resp)].status = StatusOK) =>
          /\ resp[Len(resp)].body.count = Len(Survivors)
          /\ resp[Len(resp)].body.cities = result["cities"].val

\* GetCities answered 200 with count 2 for a directory of three countries
\* whose second one was filtered out: ids 1 and 2 for countries 1 and 3.
C15_Witness ==
    /\ req.handler = "GetCities" /\ hpc.stage = "done"
    /\ resp[Len(resp)].status = StatusOK
    /\ Len(directory) = 3
    /\ Survives(directory[1]) /\ ~Survives(directory[2]) /\ Survives(directory[3])
    /\ resp[Len(resp)].body.count = 2
    /\ resp[Len(resp)].body.cities[2].ID = 2
    /\ resp[Len(resp)].body.cities[2].Country = 3

LandmarksApplied == call.fn = "landmarksFromResponse" /\ call.done

\* What C16 says of the places-search answers other than a success with
\* result groups: a non-success status gives an error with the status code
\* and the raw body, a success with no result group gives the empty sequence
\* and no error.
LandmarksErrorAndEmpty ==
    LandmarksApplied =>
        /\ (call.arg.kind = "status") =>
              /\ ret.err = Errorf("foursquare API error: ", call.arg.status,
                                  <<call.arg.raw>>)
              /\ ret.val = <<>>
        /\ (call.arg.kind = "json" /\ Len(call.arg.value) = 0) =>
              (ret.val = <<>> /\ ret.err = NilErr)

\* C16 as stated: a non-success status gives an error with code and body, no
\* result group gives an empty sequence without error, and a success with
\* result groups gives one Landmark per upstream result item, in upstream
\* order.
C16_OnePerResultItem ==
    /\ LandmarksErrorAndEmpty
    /\ (LandmarksApplied /\ call.arg.kind = "json" /\ Len(call.arg.value) > 0) =>
          LET items == itemsOfGroups(call.arg.value)
          IN  /\ ret.err = NilErr
              /\ Len(ret.val) = Len(items)
              /\ \A i \in 1..Len(items) : ret.val[i] = LandmarkOf(items[i].Venue)

\* C16 amended: as above, but a success with result groups gives one Landmark
\* per item of the first result group only, in upstream order; the items of
\* later groups are not returned.
C16_OnePerFirstGroupItem ==
    /\ LandmarksErrorAndEmpty
    /\ (LandmarksApplied /\ call.arg.kind = "json" /\ Len(call.arg.value) > 0) =>
          LET items == call.arg.value[1].Items
          IN  /\ ret.err = NilErr
              /\ Len(ret.val) = Len(items)
              /\ \A i \in 1..Len(items) : ret.val[i] = LandmarkOf(items[i].Venue)

\* Two groups of two items each came back, and the two Landmarks returned are
\* the first group's, in order.
C16_Witness ==
    /\ LandmarksApplied
    /\ call.arg.kind = "json"
    /\ Len(call.arg.value) = 2
    /\ Len(call.arg.value[1].Items) = 2
    /\ Len(call.arg.value[2].Items) = 2
    /\ Len(ret.val) = 2
    /\ ret.val[1].Name = VenueField(1, 1, 1)
    /\ ret.val[2].Name = VenueField(1, 2, 1)

KeyNotSet == Errorf("FOURSQUARE_API_KEY not set", 0, <<>>)
PlacesSearched ==
    \E i \in 1..Len(reqlog["landmarks"]) : reqlog["landmarks"][i].to = "foursquare"
LandmarksOver == pc["landmarks"] \in {"returned", "exited"}

\* C17: with FOURSQUARE_API_KEY empty or unset the landmark adapter returns
\* "FOURSQUARE_API_KEY not set" and never issues the places-search request;
\* the credential is tested only after geocoding, so the geocoding request
\* has been issued by then and a geocoding failure is reported instead of
\* the missing credential; any non-empty credential, with or without '+',
\* goes on to the places-search request.
C17_KeyCheckedAfterGeocoding ==
    /\ (env = <<>>) =>
          /\ ~PlacesSearched
          /\ pc["landmarks"] \notin {"fetching", "hung"}
          /\ LandmarksOver =>
                IF coords["landmarks"] = NoCoords
                THEN result["landmarks"].err.wrap = "geocoding failed: "
                ELSE result["landmarks"].err = KeyNotSet
    /\ (result["landmarks"].err.text = KeyNotSet.text) =>
          /\ env = <<>>
          /\ coords["landmarks"] # NoCoords
          /\ Len(reqlog["landmarks"]) = 1
          /\ reqlog["landmarks"][1].to = "nominatim"
    /\ (env # <<>> /\ coords["landmarks"] # NoCoords /\ pc["landmarks"] # "geocoded") =>
          /\ Len(reqlog["landmarks"]) = 2
          /\ reqlog["landmarks"][2].to = "foursquare"
          /\ reqlog["landmarks"][2].client_id = parseV2APIKey(env)[1]
          /\ reqlog["landmarks"][2].client_secret = parseV2APIKey(env)[2]
    /\ (env # <<>> /\ coords["landmarks"] = NoCoords /\ LandmarksOver) =>
          /\ result["landmarks"].err.wrap = "geocoding failed: "
          /\ ~PlacesSearched

\* Without a credential the adapter geocoded the city and then returned
\* "FOURSQUARE_API_KEY not set", the geocoding request being its only one.
C17_Witness ==
    /\ env = <<>>
    /\ pc["landmarks"] = "returned"
    /\ result["landmarks"].err = KeyNotSet
    /\ Len(reqlog["landmarks"]) = 1
    /\ reqlog["landmarks"][1].to = "nominatim"

====
